---- MODULE Spec2Model ----
(***************************************************************************)
(* inflow.io: the client-side production pipeline of the four App variants *)
(*   "full"       src/App.tsx 28-236          (IndexedDB, video export)    *)
(*   "fullLS"     src/unnamed/part_002 133-277 (localStorage)              *)
(*   "library"    src/App.tsx 587-688          (script library)            *)
(*   "storyboard" src/unnamed/part_002 784-1082 (auth, background images)  *)
(* and of the Gateway service functions of src/unnamed/part_000/part_001.  *)
(***************************************************************************)
EXTENDS Integers, Sequences, FiniteSets, TLC

\* ------------------------------------------------------------------ bounds
MaxSegs == 2        \* longest script the Gateway returns
MaxIds == 2         \* values the random id generator may return
MaxProjects == 2    \* longest project list
MaxWrites == 1      \* store writes pending at once
MaxLoops == 1       \* background image loops running at once
MaxStamps == 2      \* values Date.now() takes
MaxTitle == 3       \* longest project title, in characters

VARIABLES
  app,            \* which App variant runs
  user,           \* storyboard: the logged-in user, or NoUser
  activeTab,      \* full/fullLS: 'dashboard' | 'create' | 'history'
  currentStep,    \* ProjectStep
  currentProject, \* Project | null
  ideas,          \* what setIdeas last stored
  loading,        \* the loading label, or NoLoading
  projects,       \* the in-memory project list
  store,          \* the Persistence Store's value under the project key
  writes,         \* localforage.setItem calls issued and not yet completed
  requests,       \* Gateway requests in flight
  fg,             \* the awaited handler: its position and its closure
  loops,          \* storyboard: the running generateVisualsForProject calls
  isExporting,    \* full: the export flag
  exportProgress, \* full: the export percentage
  exporter,       \* full: handleExport's position, closure and recorder
  last,           \* history: the Gateway call or handler that just completed
  generated,      \* history: segments of currentProject already given an image
  peer,           \* a second tab of the same App on the same store
  preview         \* full/fullLS: currentVisualIndex and isPlaying

vars == <<app, user, activeTab, currentStep, currentProject, ideas, loading,
          projects, store, writes, requests, fg, loops, isExporting,
          exportProgress, exporter, last, generated, peer, preview>>

\* ------------------------------------------------------------------ values
Apps == {"full", "fullLS", "library", "storyboard"}
FullApps == {"full", "fullLS"}
LibApps == {"library", "storyboard"}

NoUser == "none"
Users == {"u1"}
\* two accounts that sign in on the same browser
Accounts == {"u1", "u2"}

NoLoading == "none"

NoImage == <<>>
ImageUrl(prompt) == <<"data:image", prompt>>
NoAudio == <<>>

\* ScriptSegment: the i-th segment of a Gateway script
Segment(i) == [id |-> i, text |-> i, visualPrompt |-> i, visualImage |-> NoImage]
ScriptOfLen(n) == [i \in 1..n |-> Segment(i)]
\* the ids are the Gateway's: a script whose segments all carry one id
DupScript == [i \in 1..MaxSegs |-> [Segment(i) EXCEPT !.id = 1]]
Scripts == {ScriptOfLen(n) : n \in 0..MaxSegs}

\* ProjectVisual
Visual(url, segmentId) == [url |-> url, segmentId |-> segmentId, isGenerating |-> FALSE]

\* Project | null
NoProject == [id |-> 0, script |-> <<>>, visuals |-> <<>>, audioData |-> NoAudio,
              createdAt |-> 0, status |-> "null"]
Ids == 1..MaxIds
\* Date.now() values
Stamps == 1..MaxStamps
\* the random id and the clock sampled together: the k-th id comes with the
\* k-th time, the last time standing for all later ones
Births == {[id |-> i, at |-> IF i <= MaxStamps THEN i ELSE MaxStamps] : i \in Ids}

\* VideoIdea, and the other JSON values a Gateway text may hold
Idea == [title |-> "t", hook |-> "h", description |-> "d", suggestedNiche |-> "n"]
BadIdea == [title |-> "t"]

JArray(items) == [t |-> "array", items |-> items]
JObject == [t |-> "object"]
NoIdeas == JArray(<<>>)

\* response.text of a Gateway answer: undefined/empty, or a text that
\* JSON.parse rejects (valid = FALSE) or turns into json
NoText == [empty |-> TRUE, valid |-> FALSE, json |-> JArray(<<>>)]
BadText == [empty |-> FALSE, valid |-> FALSE, json |-> JArray(<<>>)]
JsonText(v) == [empty |-> FALSE, valid |-> TRUE, json |-> v]

\* what ai.models.generateContent does: reject, or resolve with a text
Rejected == [fails |-> TRUE, text |-> NoText]
Resolved(text) == [fails |-> FALSE, text |-> text]

IdeaResponses ==
  {Rejected, Resolved(NoText), Resolved(BadText),
   Resolved(JsonText(JArray(<<>>))), Resolved(JsonText(JArray(<<Idea>>))),
   Resolved(JsonText(JArray(<<BadIdea>>))), Resolved(JsonText(JObject))}

ScriptResponses ==
  {Rejected, Resolved(NoText), Resolved(BadText)}
    \cup {Resolved(JsonText(JArray(s))) : s \in Scripts}
\* answers whose segments repeat an id
DupResponses == {Resolved(JsonText(JArray(DupScript)))}
\* one answer of one segment
ShortResponses == {Resolved(JsonText(JArray(ScriptOfLen(1))))}

\* generateContent for an image or for speech: reject, or resolve with or
\* without an inlineData part
MediaResponses ==
  {[fails |-> TRUE, inlineData |-> FALSE], [fails |-> FALSE, inlineData |-> FALSE],
   [fails |-> FALSE, inlineData |-> TRUE]}

\* ------------------------------------------------------- Gateway service
Returned(v) == [threw |-> FALSE, value |-> v]
Threw == [threw |-> TRUE, value |-> JArray(<<>>)]

\* JSON.parse(response.text || '[]') inside try/catch returning []
ParseOrEmpty(text) ==
  IF text.empty THEN Returned(JArray(<<>>))
  ELSE IF text.valid THEN Returned(text.json)
  ELSE Returned(JArray(<<>>))

\* brainstormIdeas: the await of generateContent is outside the try
brainstormIdeas(resp) ==
  IF resp.fails THEN Threw ELSE ParseOrEmpty(resp.text)

\* generateScript: the same shape
generateScript(resp) ==
  IF resp.fails THEN Threw ELSE ParseOrEmpty(resp.text)

\* a generateAssetImage that returns an empty url instead of throwing
generateAssetImageSoft(prompt, resp) ==
  [threw |-> FALSE,
   value |-> IF resp.fails \/ ~resp.inlineData THEN NoImage ELSE ImageUrl(prompt)]

\* generateAssetImage: throws when the call rejects or no part has inlineData
generateAssetImage(prompt, resp) ==
  IF resp.fails \/ ~resp.inlineData THEN [threw |-> TRUE, value |-> NoImage]
  ELSE [threw |-> FALSE, value |-> ImageUrl(prompt)]

\* generateStoryboardImage: everything inside try, null on any failure
generateStoryboardImage(prompt, resp) ==
  IF resp.fails \/ ~resp.inlineData THEN NoImage ELSE ImageUrl(prompt)

\* Array.prototype.join: the parts with sep between neighbours
RECURSIVE Join(_, _)
Join(parts, sep) ==
  IF Len(parts) <= 1 THEN parts ELSE <<Head(parts), sep>> \o Join(Tail(parts), sep)

\* script.map(s => s.text).join(' ')
FullText(script) == Join([i \in 1..Len(script) |-> script[i].text], " ")

\* ------------------------------------------------------------ WAV header
\* A JavaScript number n >= 0 as its five low bytes, least significant
\* first, so that lengths past 2^32 can be written down.
Num(b0, b1, b2, b3, b4) == <<b0, b1, b2, b3, b4>>
Small(k) == Num(k % 256, (k \div 256) % 256, (k \div 65536) % 256, 0, 0)

\* a + b, byte by byte with carry
RECURSIVE AddCarry(_, _, _)
AddCarry(a, b, carry) ==
  IF a = <<>> THEN <<>>
  ELSE LET t == Head(a) + Head(b) + carry IN
         <<t % 256>> \o AddCarry(Tail(a), Tail(b), t \div 256)
Plus(a, b) == AddCarry(a, b, 0)

\* DataView.setUint32(offset, value, true): value modulo 2^32, low byte first
setUint32(value) == SubSeq(value, 1, 4)
\* DataView.setUint16(offset, k, true)
setUint16(k) == <<k % 256, (k \div 256) % 256>>

\* the four-character tags, written big-endian
RIFF == <<82, 73, 70, 70>>
WAVE == <<87, 65, 86, 69>>
FMT == <<102, 109, 116, 32>>
DATA == <<100, 97, 116, 97>>

\* a header whose file length counts the header itself
createWavFileWhole(length, sampleRate) ==
  RIFF \o setUint32(Plus(Small(44), length)) \o WAVE \o FMT \o setUint32(Small(16))
    \o setUint16(1) \o setUint16(1) \o setUint32(sampleRate)
    \o setUint32(Plus(sampleRate, sampleRate)) \o setUint16(2) \o setUint16(16)
    \o DATA \o setUint32(length)

\* createWavFile: the 44 header bytes for pcmData.length = length
createWavFile(length, sampleRate) ==
  RIFF \o setUint32(Plus(Small(36), length)) \o WAVE \o FMT \o setUint32(Small(16))
    \o setUint16(1) \o setUint16(1) \o setUint32(sampleRate)
    \o setUint32(Plus(sampleRate, sampleRate)) \o setUint16(2) \o setUint16(16)
    \o DATA \o setUint32(length)

\* the PCM lengths and sample rates tried: small ones, ones that carry, and
\* ones at and past the 32-bit limit
PcmLengths ==
  {Small(0), Small(1), Small(220), Small(255), Small(65535), Small(48000),
   Num(219, 255, 255, 255, 0), Num(220, 255, 255, 255, 0),
   Num(255, 255, 255, 255, 0), Num(0, 0, 0, 0, 1)}
SampleRates ==
  {Small(0), Small(1), Small(8000), Small(24000), Small(44100), Small(48000),
   Num(255, 255, 255, 127, 0), Num(0, 0, 0, 128, 0),
   Num(255, 255, 255, 255, 0), Num(0, 0, 0, 0, 1)}

\* generateAudio: throws when the call rejects or carries no data, else the
\* blob URL of createWavFile
generateAudio(text, resp) ==
  IF resp.fails \/ ~resp.inlineData THEN [threw |-> TRUE, value |-> NoAudio]
  ELSE [threw |-> FALSE, value |-> <<"blob:wav">>]

\* ------------------------------------------------------------- history
NoEvent == [op |-> "none"]
\* a Gateway media call of a produce run or of a background loop returned
ProdEvent(owner, call, seg, n, ok, ended, failed, speech) ==
  [op |-> "prod", owner |-> owner, call |-> call, seg |-> seg, n |-> n, ok |-> ok,
   ended |-> ended, failed |-> failed, speech |-> speech]
\* brainstormIdeas completed on response resp with result res
BrainEvent(resp, res) == [op |-> "brainstorm", resp |-> resp, res |-> res]
\* generateScript completed on response resp with result res
ScriptEvent(resp, res) == [op |-> "script", resp |-> resp, res |-> res]
\* the user navigated: kind is "new" (startNewProject) or "open" (openProject)
NavEvent(kind) == [op |-> "nav", kind |-> kind]
\* a handler changed the project list: kind is "add", "replace" or "delete"
ListEvent(kind) == [op |-> "list", kind |-> kind]
\* ------------------------------------------------- the download name
\* a title is a sequence of characters; Alphabet holds a letter, the two
\* kinds of whitespace and three characters a file name must not hold
Alphabet == {"a", " ", "\t", "/", ":", "*"}
Titles == UNION {[1..n -> Alphabet] : n \in 0..MaxTitle}
\* what the class \s matches, within Alphabet
IsSpace(c) == c \in {" ", "\t"}

\* title.replace(/\s+/g, '_'): every maximal run of whitespace becomes one
\* underscore, every other character stays
RECURSIVE ReplaceSpaces(_, _)
ReplaceSpaces(title, inRun) ==
  IF title = <<>> THEN <<>>
  ELSE IF IsSpace(Head(title))
         THEN (IF inRun THEN <<>> ELSE <<"_">>) \o ReplaceSpaces(Tail(title), TRUE)
         ELSE <<Head(title)>> \o ReplaceSpaces(Tail(title), FALSE)

\* "_inflow.webm"
Suffix == <<"_", "i", "n", "f", "l", "o", "w", ".", "w", "e", "b", "m">>

\* a.download of recorder.onstop
downloadName(title) == ReplaceSpaces(title, FALSE) \o Suffix

\* recorder.onstop named the download of a project titled title
NameEvent(title, name) == [op |-> "name", title |-> title, name |-> name]
\* createWavFile(length, sampleRate) returned header
WavEvent(length, sampleRate, header) ==
  [op |-> "wav", length |-> length, sampleRate |-> sampleRate, header |-> header]
\* the page was reloaded; saved: no setItem call was pending when it closed
ReloadEvent(saved) == [op |-> "reload", saved |-> saved]

\* ------------------------------------------------------------- session
Idle == [pc |-> "idle", i |-> 0, visuals |-> <<>>, proj |-> NoProject, projs |-> <<>>]
NoLoop == [on |-> FALSE, i |-> 0, project |-> NoProject]
Request(owner, kind, seg) == [owner |-> owner, kind |-> kind, seg |-> seg]
Fg == 0
\* the generateContent call of generateAudio(text)
SpeechRequest(text) == [owner |-> Fg, kind |-> "audio", seg |-> 0, text |-> text]

\* handleExport at rest; drawn lists the visuals drawn onto the canvas,
\* recording is the state of the MediaRecorder it created last
NoExport == [pc |-> "idle", i |-> 0, proj |-> NoProject, drawn |-> <<>>,
             recording |-> FALSE]

NoStore == [has |-> FALSE, list |-> <<>>]
Stored(ps) == [has |-> TRUE, list |-> ps]

\* a setItem that keeps the stored projects the written list does not have
SetItemMerge(old, ps) ==
  Stored(ps \o SelectSeq(old.list, LAMBDA q : \A j \in 1..Len(ps) : ps[j].id # q.id))

\* setItem(key, ps) on a store holding old: the whole value is replaced
SetItem(old, ps) == Stored(ps)

\* the second tab: closed, or open with its own in-memory list
NoPeer == [open |-> FALSE, projects |-> <<>>]

\* the review preview: index is currentVisualIndex, playing is isPlaying,
\* seen is the currentVisualIndex of the render that showed the review
\* preview directly after currentProject last changed, before the reset
\* effect ran
NoPreview == [index |-> 0, playing |-> FALSE, seen |-> 0]

\* setCurrentProject with a new value: the render that follows keeps the
\* index, then the effect on [currentProject] sets the index to 0 and
\* isPlaying to false; shown: that render shows the review preview
ResetAfterRender(pv, shown) ==
  [index |-> 0, playing |-> FALSE, seen |-> IF shown THEN pv.index ELSE 0]

\* the nicheInput strings tried, as character sequences
NicheInputs == {<<" ">>, <<"a">>, <<" ", "a", " ">>}
RECURSIVE TrimStart(_)
TrimStart(s) == IF s # <<>> /\ Head(s) = " " THEN TrimStart(Tail(s)) ELSE s
RECURSIVE TrimEnd(_)
TrimEnd(s) ==
  IF s # <<>> /\ s[Len(s)] = " " THEN TrimEnd(SubSeq(s, 1, Len(s) - 1)) ELSE s
Trim(s) == TrimEnd(TrimStart(s))

\* the loading overlay: over the whole window in the full-pipeline Apps
\* (fixed inset-0), over <main> only in the library Apps (absolute inset-0)
Overlay == loading # NoLoading
SidebarEnabled == IF app \in FullApps THEN ~Overlay ELSE TRUE
LoggedIn == app = "storyboard" => user # NoUser

\* a delete that removes the first project with the id only
RECURSIVE FilterOutIdFirst(_, _)
FilterOutIdFirst(ps, id) ==
  IF ps = <<>> THEN <<>>
  ELSE IF Head(ps).id # id THEN <<Head(ps)>> \o FilterOutIdFirst(Tail(ps), id)
  ELSE Tail(ps)

\* array.filter(p => p.id !== id)
RECURSIVE FilterOutId(_, _)
FilterOutId(ps, id) ==
  IF ps = <<>> THEN <<>>
  ELSE IF Head(ps).id # id THEN <<Head(ps)>> \o FilterOutId(Tail(ps), id)
  ELSE FilterOutId(Tail(ps), id)

\* the saveProjects effect that runs after projects became ps: the setItem
\* calls it issues
SaveEffectAs(ps, u) ==
  IF app \in {"full", "library"} THEN (IF Len(ps) > 0 THEN <<ps>> ELSE <<>>)
  ELSE IF app = "storyboard" THEN (IF u # NoUser /\ Len(ps) > 0 THEN <<ps>> ELSE <<>>)
  ELSE <<>>
SaveEffect(ps) == SaveEffectAs(ps, user)

\* setItem calls ws issued behind the pending calls q; a call that repeats
\* the value of the call before it leaves the store's history as it is and
\* is not queued again
RECURSIVE Enqueue(_, _)
Enqueue(q, ws) ==
  IF ws = <<>> THEN q
  ELSE IF q # <<>> /\ q[Len(q)] = Head(ws) THEN Enqueue(q, Tail(ws))
  ELSE Enqueue(Append(q, Head(ws)), Tail(ws))

\* setProjects(ps) followed by the persistence effect; direct are the
\* setItem calls the handler itself made first
SetProjects(ps, direct) ==
  /\ projects' = ps
  /\ IF app = "fullLS"
       THEN store' = Stored(ps) /\ writes' = writes
       ELSE /\ Len(Enqueue(writes, direct \o SaveEffect(ps))) <= MaxWrites
            /\ writes' = Enqueue(writes, direct \o SaveEffect(ps))
            /\ store' = store

Init ==
  /\ app \in Apps
  /\ user = NoUser
  /\ activeTab = IF app \in FullApps THEN "dashboard" ELSE "create"
  /\ currentStep = "IDEATION"
  /\ currentProject = NoProject
  /\ ideas = NoIdeas
  /\ loading = NoLoading
  /\ projects = <<>>
  /\ store = IF app = "fullLS" THEN Stored(<<>>) ELSE NoStore
  /\ writes = <<>>
  /\ requests = {}
  /\ fg = Idle
  /\ loops = [l \in 1..MaxLoops |-> NoLoop]
  /\ isExporting = FALSE
  /\ exportProgress = 0
  /\ exporter = NoExport
  /\ last = NoEvent
  /\ generated = {}
  /\ peer = NoPeer
  /\ preview = NoPreview

\* --------------------------------------------------------- persistence
\* The store is read only by the mount and login effects, and their getItem
\* is queued behind the pending setItem calls: no handler can tell whether a
\* pending write completed before or after it ran. So a pending write
\* completes before the next handler step, unless the page is closed first.
Settled == writes = <<>>

\* a pending localforage.setItem completes; calls complete in issue order
WriteComplete ==
  /\ peer' = peer
  /\ preview' = preview
  /\ writes # <<>>
  /\ store' = SetItem(store, Head(writes))
  /\ writes' = Tail(writes)
  /\ last' = last
  /\ UNCHANGED <<isExporting, exportProgress, exporter, app, user, activeTab, currentStep, currentProject, ideas, loading,
                 projects, requests, fg, loops, generated>>

\* ------------------------------------------------------------ navigation
\* the review preview of a project with visuals is rendered
ReviewShown(tab, step, cp) ==
  /\ app \in FullApps
  /\ tab = "create" /\ step = "REVIEW"
  /\ cp # NoProject /\ Len(cp.visuals) > 0

\* preview after a handler that sets currentProject to cp and leaves the App
\* on tab and step
Switched(tab, step, cp) ==
  IF app \notin FullApps \/ cp = currentProject THEN preview
  ELSE ResetAfterRender(preview, ReviewShown(tab, step, cp))

startNewProject ==
  /\ peer' = peer
  /\ preview' = [Switched("create", "IDEATION", NoProject) EXCEPT !.playing = FALSE]
  /\ Settled
  /\ LoggedIn
  /\ SidebarEnabled
  /\ activeTab' = "create"
  /\ currentStep' = "IDEATION"
  /\ ideas' = NoIdeas
  /\ currentProject' = NoProject
  /\ generated' = {}
  /\ last' = NavEvent("new")
  /\ UNCHANGED <<isExporting, exportProgress, exporter, app, user, loading, projects, store, writes, requests,
                 fg, loops>>

\* the sidebar buttons of the full-pipeline Apps: Dashboard, History
SetActiveTab(t) ==
  /\ peer' = peer
  /\ preview' = preview
  /\ Settled
  /\ app \in FullApps
  /\ ~Overlay
  /\ activeTab # t
  /\ activeTab' = t
  /\ last' = NoEvent
  /\ UNCHANGED <<isExporting, exportProgress, exporter, app, user, currentStep, currentProject, ideas, loading, projects,
                 store, writes, requests, fg, loops, generated>>

\* click on a project card of the dashboard or of the history
OpenCard(k) ==
  /\ peer' = peer
  /\ Settled
  /\ app \in FullApps
  /\ ~Overlay
  /\ activeTab \in {"dashboard", "history"}
  /\ k \in 1..Len(projects)
  /\ currentProject' = projects[k]
  /\ preview' = Switched("create", "REVIEW", projects[k])
  /\ currentStep' = "REVIEW"
  /\ activeTab' = "create"
  /\ generated' = {}
  /\ last' = NoEvent
  /\ UNCHANGED <<isExporting, exportProgress, exporter, app, user, ideas, loading, projects, store, writes,
                 requests, fg, loops>>

\* ------------------------------------------------------------- brainstorm
IdeationVisible == activeTab = "create" /\ currentStep = "IDEATION" /\ ~Overlay

handleBrainstorm(nicheInput) ==
  /\ peer' = peer
  /\ preview' = preview
  /\ Settled
  /\ LoggedIn
  /\ IdeationVisible
  /\ fg.pc = "idle"
  /\ Trim(nicheInput) # <<>>
  /\ loading' = "Ideating"
  /\ requests' = requests \cup {Request(Fg, "brainstorm", 0)}
  /\ fg' = [Idle EXCEPT !.pc = "brainstorm"]
  /\ last' = NoEvent
  /\ UNCHANGED <<isExporting, exportProgress, exporter, app, user, activeTab, currentStep, currentProject, ideas, projects,
                 store, writes, loops, generated>>

\* the awaited brainstormIdeas settles: setIdeas(res), or the catch; finally
handleBrainstormReturn(resp) ==
  /\ peer' = peer
  /\ preview' = preview
  /\ Settled
  /\ fg.pc = "brainstorm"
  /\ LET res == brainstormIdeas(resp) IN
       /\ ideas' = IF res.threw THEN ideas ELSE res.value
       /\ last' = BrainEvent(resp, res)
  /\ loading' = NoLoading
  /\ requests' = requests \ {Request(Fg, "brainstorm", 0)}
  /\ fg' = Idle
  /\ UNCHANGED <<isExporting, exportProgress, exporter, app, user, activeTab, currentStep, currentProject, projects, store,
                 writes, loops, generated>>

\* ---------------------------------------------------------------- script
\* click on an idea card: selectIdea / handleSelectIdea up to its await
selectIdea(k) ==
  /\ peer' = peer
  /\ preview' = preview
  /\ Settled
  /\ LoggedIn
  /\ IdeationVisible
  /\ fg.pc = "idle"
  /\ ideas.t = "array"
  /\ k \in 1..Len(ideas.items)
  /\ loading' = "Scripting"
  /\ requests' = requests \cup {Request(Fg, "script", 0)}
  /\ fg' = [Idle EXCEPT !.pc = "script"]
  /\ last' = NoEvent
  /\ UNCHANGED <<isExporting, exportProgress, exporter, app, user, activeTab, currentStep, currentProject, ideas, projects,
                 store, writes, loops, generated>>

\* every Project value the state holds
SeqRange(q) == {q[j] : j \in 1..Len(q)}
AllProjects ==
  ({currentProject, fg.proj, exporter.proj} \cup SeqRange(projects)
     \cup SeqRange(store.list) \cup UNION {SeqRange(w) : w \in SeqRange(writes)}
     \cup SeqRange(fg.projs) \cup {loops[l].project : l \in 1..MaxLoops}
     \cup SeqRange(peer.projects))
    \ {NoProject}

\* a Project literal that starts out ready
NewProjectReady(id, script, now) ==
  [id |-> id, script |-> script, visuals |-> <<>>, audioData |-> NoAudio,
   createdAt |-> now, status |-> "ready"]

\* the Project literal of selectIdea / handleSelectIdea, with id the value
\* of Math.random() and now that of Date.now()
NewProject(id, script, now) ==
  [id |-> id, script |-> script, visuals |-> <<>>, audioData |-> NoAudio,
   createdAt |-> now, status |-> IF app \in FullApps THEN "draft" ELSE "none"]

\* a loop that requests the remaining images all at once
SceneRequestsAll(owner, i) == {Request(owner, "image", j) : j \in i..MaxSegs}

\* the image requests a loop issues when it reaches segment i
SceneRequests(owner, i) == {Request(owner, "image", i)}

\* generateVisualsForProject(project) up to its first await, in a free slot
FreeSlots == {l \in 1..MaxLoops : ~loops[l].on}
StartLoop(project) ==
  IF Len(project.script) = 0
    THEN loops' = loops /\ requests' = requests \ {Request(Fg, "script", 0)}
    ELSE /\ FreeSlots # {}
         /\ LET l == CHOOSE x \in FreeSlots : \A y \in FreeSlots : x <= y IN
              /\ loops' = [loops EXCEPT ![l] = [on |-> TRUE, i |-> 1, project |-> project]]
              /\ requests' = (requests \ {Request(Fg, "script", 0)})
                               \cup SceneRequests(l, 1)

\* the awaited generateScript settles
selectIdeaReturn(resp, id, now) ==
  /\ peer' = peer
  /\ Settled
  /\ fg.pc = "script"
  /\ preview' = IF generateScript(resp).threw THEN preview
                ELSE Switched(activeTab, "SCRIPTING",
                              NewProject(id, generateScript(resp).value.items, now))
  /\ LET res == generateScript(resp) IN
       IF res.threw
         THEN /\ requests' = requests \ {Request(Fg, "script", 0)}
              /\ UNCHANGED <<currentProject, currentStep, loops, generated>>
         ELSE /\ currentProject' = NewProject(id, res.value.items, now)
              /\ currentStep' = "SCRIPTING"
              /\ generated' = {}
              /\ IF app = "storyboard"
                   THEN StartLoop(NewProject(id, res.value.items, now))
                   ELSE /\ requests' = requests \ {Request(Fg, "script", 0)}
                        /\ loops' = loops
  /\ loading' = NoLoading
  /\ fg' = Idle
  /\ last' = ScriptEvent(resp, generateScript(resp))
  /\ UNCHANGED <<isExporting, exportProgress, exporter, app, user, activeTab, ideas, projects, store, writes>>

\* --------------------------------------------------------------- produce
\* visuals.unshift(v)
PushVisualFront(visuals, v) == <<v>> \o visuals

\* visuals.push(v)
PushVisual(visuals, v) == Append(visuals, v)

\* a finalProject literal that stamps the project again
FinalProjectRestamped(cp, visuals, audioUrl) ==
  [cp EXCEPT !.visuals = visuals, !.audioData = audioUrl, !.status = "ready",
             !.createdAt = @ + 1]

\* the finalProject literal of generateFullProduction
FinalProject(cp, visuals, audioUrl) ==
  [cp EXCEPT !.visuals = visuals, !.audioData = audioUrl, !.status = "ready"]

\* a catch that forgets setCurrentStep
CatchStepKeep(step) == step

\* the step the catch of generateFullProduction sets
CatchStep(step) == "SCRIPTING"

\* the Generate Visuals button is on screen and generateFullProduction
\* passes its guard
CanProduce ==
  /\ app \in FullApps
  /\ activeTab = "create" /\ currentStep = "SCRIPTING" /\ ~Overlay
  /\ currentProject # NoProject
  /\ fg.pc = "idle"

\* click on Generate Visuals: generateFullProduction up to its first await
generateFullProduction ==
  /\ peer' = peer
  /\ preview' = preview
  /\ Settled
  /\ CanProduce
  /\ Len(projects) < MaxProjects
  /\ currentStep' = "GENERATING"
  /\ LET n == Len(currentProject.script)
         closure == [Idle EXCEPT !.proj = currentProject,
                                 !.projs = IF app = "fullLS" THEN projects ELSE <<>>] IN
       IF n = 0
         THEN /\ loading' = "Synthesizing AI voiceover"
              /\ requests' = requests \cup {SpeechRequest(FullText(currentProject.script))}
              /\ fg' = [closure EXCEPT !.pc = "audio"]
         ELSE /\ loading' = "Generating scene"
              /\ requests' = requests \cup SceneRequests(Fg, 1)
              /\ fg' = [closure EXCEPT !.pc = "image", !.i = 1]
  /\ last' = NoEvent
  /\ UNCHANGED <<isExporting, exportProgress, exporter, app, user, activeTab, currentProject, ideas, projects, store, writes, loops, generated>>

\* the catch and the finally of generateFullProduction
ProductionFailed ==
  /\ currentStep' = CatchStep(currentStep)
  /\ loading' = NoLoading
  /\ fg' = Idle
  /\ UNCHANGED <<currentProject, projects, store, writes>>

\* the awaited generateAssetImage of segment fg.i settles
generateAssetImageReturn(resp) ==
  /\ peer' = peer
  /\ preview' = preview
  /\ Settled
  /\ fg.pc = "image"
  /\ LET script == fg.proj.script
         i == fg.i
         n == Len(fg.proj.script)
         res == generateAssetImage(script[i].visualPrompt, resp) IN
       IF res.threw
         THEN /\ ProductionFailed
              /\ requests' = requests \ {Request(Fg, "image", i)}
              /\ generated' = generated
              /\ last' = ProdEvent(Fg, "image", i, n, FALSE, TRUE, {i}, "notcalled")
         ELSE /\ generated' = generated \cup {i}
              /\ last' = ProdEvent(Fg, "image", i, n, TRUE, FALSE, {}, "notcalled")
              /\ UNCHANGED <<currentStep, currentProject, projects, store, writes>>
              /\ IF i < n
                   THEN /\ loading' = "Generating scene"
                        /\ requests' = (requests \ {Request(Fg, "image", i)})
                                         \cup SceneRequests(Fg, i + 1)
                        /\ fg' = [fg EXCEPT
                                    !.visuals = PushVisual(@, Visual(res.value, script[i].id)),
                                    !.i = i + 1]
                   ELSE /\ loading' = "Synthesizing AI voiceover"
                        /\ requests' = (requests \ {Request(Fg, "image", i)})
                                         \cup {SpeechRequest(FullText(script))}
                        /\ fg' = [fg EXCEPT
                                    !.visuals = PushVisual(@, Visual(res.value, script[i].id)),
                                    !.pc = "audio", !.i = 0]
  /\ UNCHANGED <<isExporting, exportProgress, exporter, app, user, activeTab, ideas, loops>>

\* the awaited generateAudio settles
generateAudioReturn(resp) ==
  /\ peer' = peer
  /\ Settled
  /\ fg.pc = "audio"
  /\ preview' = LET res == generateAudio(FullText(fg.proj.script), resp) IN
                  IF res.threw THEN preview
                  ELSE Switched(activeTab, "REVIEW",
                                FinalProject(fg.proj, fg.visuals, res.value))
  /\ requests' = requests \ {SpeechRequest(FullText(fg.proj.script))}
  /\ LET n == Len(fg.proj.script)
         res == generateAudio(FullText(fg.proj.script), resp)
         finalProject == FinalProject(fg.proj, fg.visuals, res.value) IN
       IF res.threw
         THEN /\ ProductionFailed
              /\ last' = ProdEvent(Fg, "audio", 0, n, FALSE, TRUE, {}, "fail")
         ELSE /\ currentProject' = finalProject
              /\ SetProjects(<<finalProject>> \o
                               (IF app = "full" THEN projects ELSE fg.projs), <<>>)
              /\ currentStep' = "REVIEW"
              /\ loading' = NoLoading
              /\ fg' = Idle
              /\ last' = ProdEvent(Fg, "audio", 0, n, TRUE, TRUE, {}, "ok")
  /\ UNCHANGED <<isExporting, exportProgress, exporter, app, user, activeTab, ideas, loops, generated>>

\* the trash button of a dashboard card (full-pipeline Apps)
deleteCard(k) ==
  /\ peer' = peer
  /\ preview' = preview
  /\ Settled
  /\ app \in FullApps
  /\ ~Overlay
  /\ activeTab = "dashboard"
  /\ k \in 1..Len(projects)
  /\ LET updated == FilterOutId(projects, projects[k].id) IN
       SetProjects(updated, IF app = "full" THEN <<updated>> ELSE <<>>)
  /\ last' = ListEvent("delete")
  /\ UNCHANGED <<isExporting, exportProgress, exporter, app, user, activeTab, currentStep, currentProject, ideas, loading, requests, fg, loops, generated>>

\* ------------------------------------------------- library, storyboard
\* newScript[i] = {...newScript[i], visualImage} on a copy of prev.script;
\* an index past the end leaves holes before the new element
Hole == [id |-> -1, text |-> -1, visualPrompt |-> -1, visualImage |-> NoImage]
Undefined == [id |-> 0, text |-> 0, visualPrompt |-> 0, visualImage |-> NoImage]
SetVisualImage(script, i, img) ==
  [j \in 1..(IF i > Len(script) THEN i ELSE Len(script)) |->
     IF j = i
       THEN [(IF j <= Len(script) THEN script[j] ELSE Undefined) EXCEPT !.visualImage = img]
       ELSE IF j <= Len(script) THEN script[j] ELSE Hole]

\* an updater that does not compare the ids
AttachImageAny(prev, project, i, img) ==
  IF prev = NoProject THEN prev
  ELSE [prev EXCEPT !.script = SetVisualImage(@, i, img)]

\* the functional setCurrentProject of generateVisualsForProject
AttachImage(prev, project, i, img) ==
  IF prev = NoProject \/ prev.id # project.id THEN prev
  ELSE [prev EXCEPT !.script = SetVisualImage(@, i, img)]

\* a loop that writes the image into the library entry of its project too
LibraryAfterImageSynced(ps, project, i, img) ==
  [j \in 1..Len(ps) |-> AttachImage(ps[j], project, i, img)]

\* the project list after the loop obtained img for segment i of project:
\* the loop calls setCurrentProject only
LibraryAfterImage(ps, project, i, img) == ps

\* the awaited generateStoryboardImage of loop l settles
generateStoryboardImageReturn(l, resp) ==
  /\ peer' = peer
  /\ preview' = preview
  /\ Settled
  /\ app = "storyboard"
  /\ loops[l].on
  /\ LET project == loops[l].project
         i == loops[l].i
         n == Len(loops[l].project.script)
         img == generateStoryboardImage(project.script[i].visualPrompt, resp) IN
       /\ currentProject' = IF img # NoImage
                              THEN AttachImage(currentProject, project, i, img)
                              ELSE currentProject
       /\ projects' = IF img # NoImage
                        THEN LibraryAfterImage(projects, project, i, img)
                        ELSE projects
       /\ IF i < n
            THEN /\ loops' = [loops EXCEPT ![l].i = i + 1]
                 /\ requests' = (requests \ {Request(l, "image", i)})
                                  \cup SceneRequests(l, i + 1)
            ELSE /\ loops' = [loops EXCEPT ![l] = NoLoop]
                 /\ requests' = requests \ {Request(l, "image", i)}
       /\ last' = ProdEvent(l, "image", i, n, img # NoImage, i = n,
                            IF img # NoImage THEN {} ELSE {i}, "notcalled")
  /\ UNCHANGED <<isExporting, exportProgress, exporter, app, user, activeTab, currentStep, ideas, loading, store,
                 writes, fg, generated>>

HasId(ps, id) == \E j \in 1..Len(ps) : ps[j].id = id

\* projects.map(p => p.id === cp.id ? cp : p)
ReplaceById(ps, cp) == [j \in 1..Len(ps) |-> IF ps[j].id = cp.id THEN cp ELSE ps[j]]

saveToLibrary ==
  /\ peer' = peer
  /\ preview' = preview
  /\ Settled
  /\ app \in LibApps
  /\ LoggedIn
  /\ ~Overlay
  /\ currentStep = "SCRIPTING"
  /\ currentProject # NoProject
  /\ IF ~HasId(projects, currentProject.id)
       THEN /\ Len(projects) < MaxProjects
            /\ SetProjects(<<currentProject>> \o projects, <<>>)
            /\ last' = ListEvent("add")
       ELSE IF app = "storyboard"
         THEN /\ SetProjects(ReplaceById(projects, currentProject), <<>>)
              /\ last' = ListEvent("replace")
         ELSE /\ UNCHANGED <<projects, store, writes>>
              /\ last' = NoEvent
  /\ currentStep' = "NOTE"
  /\ UNCHANGED <<isExporting, exportProgress, exporter, app, user, activeTab, currentProject, ideas, loading, requests, fg,
                 loops, generated>>

\* the trash button of a sidebar entry (library Apps)
deleteProject(k) ==
  /\ peer' = peer
  /\ preview' = preview
  /\ Settled
  /\ app \in LibApps
  /\ LoggedIn
  /\ k \in 1..Len(projects)
  /\ SetProjects(FilterOutId(projects, projects[k].id), <<>>)
  /\ IF currentProject # NoProject /\ currentProject.id = projects[k].id
       THEN /\ currentStep' = "IDEATION"
            /\ ideas' = NoIdeas
            /\ currentProject' = NoProject
       ELSE UNCHANGED <<currentStep, ideas, currentProject>>
  /\ last' = ListEvent("delete")
  /\ UNCHANGED <<isExporting, exportProgress, exporter, app, user, activeTab, loading, requests, fg, loops, generated>>

\* click on a sidebar entry (library Apps)
openProject(k) ==
  /\ peer' = peer
  /\ preview' = preview
  /\ Settled
  /\ app \in LibApps
  /\ LoggedIn
  /\ k \in 1..Len(projects)
  /\ currentProject' = projects[k]
  /\ currentStep' = "NOTE"
  /\ last' = NavEvent("open")
  /\ UNCHANGED <<isExporting, exportProgress, exporter, app, user, activeTab, ideas, loading, projects, store, writes,
                 requests, fg, loops, generated>>

\* the Back button above the script (storyboard)
backToConcepts ==
  /\ peer' = peer
  /\ preview' = preview
  /\ Settled
  /\ app = "storyboard"
  /\ LoggedIn
  /\ ~Overlay
  /\ currentStep \in {"SCRIPTING", "NOTE"}
  /\ currentProject # NoProject
  /\ currentStep' = "IDEATION"
  /\ currentProject' = NoProject
  /\ last' = NoEvent
  /\ UNCHANGED <<isExporting, exportProgress, exporter, app, user, activeTab, ideas, loading, projects, store, writes,
                 requests, fg, loops, generated>>

\* what a getItem issued now resolves to: the value behind the pending writes
Saved == IF writes = <<>> THEN store ELSE Stored(writes[Len(writes)])

\* handleAuth / handleGuestLogin succeed: setUser(u); the effects on [user]
\* save the in-memory list and load the stored one
Login(u) ==
  /\ peer' = peer
  /\ preview' = preview
  /\ Settled
  /\ app = "storyboard"
  /\ user = NoUser
  /\ user' = u
  /\ projects' = IF Saved.has THEN Saved.list ELSE projects
  /\ store' = Saved
  /\ LET ws == Enqueue(<<>>, SaveEffectAs(projects, u)
                      \o (IF Saved.has THEN SaveEffectAs(Saved.list, u) ELSE <<>>)) IN
       /\ Len(ws) <= MaxWrites
       /\ writes' = ws
  /\ last' = NoEvent
  /\ UNCHANGED <<isExporting, exportProgress, exporter, app, activeTab, currentStep, currentProject, ideas, loading, requests,
                 fg, loops, generated>>

handleLogout ==
  /\ peer' = peer
  /\ preview' = preview
  /\ Settled
  /\ app = "storyboard"
  /\ user # NoUser
  /\ user' = NoUser
  /\ currentProject' = NoProject
  /\ ideas' = NoIdeas
  /\ currentStep' = "IDEATION"
  /\ last' = NoEvent
  /\ UNCHANGED <<isExporting, exportProgress, exporter, app, activeTab, loading, projects, store, writes, requests, fg, loops,
                 generated>>

\* the page is closed and opened again: the first k pending writes reached
\* the store; the mount effects load the stored list
Reload(k) ==
  /\ peer' = peer
  /\ preview' = NoPreview
  /\ k \in 0..Len(writes)
  /\ LET landed == IF k = 0 THEN store ELSE Stored(writes[k])
         loads == landed.has /\ (app = "storyboard" => user # NoUser)
         ps == IF loads THEN landed.list ELSE <<>> IN
       /\ projects' = ps
       /\ store' = IF app = "fullLS" THEN Stored(ps) ELSE landed
       /\ writes' = IF loads THEN SaveEffect(ps) ELSE <<>>
  /\ activeTab' = IF app \in FullApps THEN "dashboard" ELSE "create"
  /\ currentStep' = "IDEATION"
  /\ currentProject' = NoProject
  /\ ideas' = NoIdeas
  /\ loading' = NoLoading
  /\ requests' = {}
  /\ fg' = Idle
  /\ loops' = [l \in 1..MaxLoops |-> NoLoop]
  /\ isExporting' = FALSE
  /\ exportProgress' = 0
  /\ exporter' = NoExport
  /\ last' = ReloadEvent(k = Len(writes))
  /\ generated' = {}
  /\ UNCHANGED <<app, user>>

\* ---------------------------------------------------------------- export
\* Math.round((k / n) * 100)
Round100(k, n) == (200 * k + n) \div (2 * n)

\* the event of an export that ended
ExportEvent(outcome, drawn, n) ==
  [op |-> "export", outcome |-> outcome, drawn |-> drawn, n |-> n]

\* what can go wrong before recorder.start() returns: no 2d context, the
\* MediaRecorder constructor or start() throwing
ExportSetups == {"ok", "no context", "recorder throws"}

\* what the body of the capture loop does once the recorder runs: it goes
\* on, or an exception takes it to the catch
CaptureOutcomes == {"ok", "throws"}

\* a catch that stops the recorder it finds recording
CaptureCatchStop(ex) ==
  IF ex.recording THEN [ex EXCEPT !.pc = "stopping", !.recording = FALSE]
  ELSE NoExport

\* the catch of handleExport reached from the capture loop: the recorder is
\* local to the try block and is not stopped
CaptureCatch(ex) == [NoExport EXCEPT !.recording = ex.recording]

\* click on EXPORT FINAL VIDEO: handleExport up to its first await
handleExport(setup) ==
  /\ peer' = peer
  /\ preview' = [preview EXCEPT !.playing = FALSE]
  /\ Settled
  /\ app = "full"
  /\ activeTab = "create" /\ currentStep = "REVIEW" /\ ~Overlay
  /\ currentProject # NoProject
  /\ ~isExporting
  /\ LET n == Len(currentProject.visuals) IN
       IF setup # "ok"
         THEN /\ isExporting' = FALSE
              /\ exportProgress' = 0
              /\ exporter' = NoExport
              /\ last' = ExportEvent("failed", <<>>, n)
         ELSE /\ isExporting' = TRUE
              /\ last' = NoEvent
              /\ IF n = 0
                   THEN /\ exportProgress' = 0
                        /\ exporter' = [NoExport EXCEPT !.pc = "stopping",
                                          !.proj = currentProject, !.recording = FALSE]
                   ELSE /\ exportProgress' = Round100(1, n)
                        /\ exporter' = [NoExport EXCEPT !.pc = "load", !.i = 1,
                                          !.proj = currentProject, !.recording = TRUE]
  /\ UNCHANGED <<app, user, activeTab, currentStep, currentProject, ideas, loading,
                 projects, store, writes, requests, fg, loops, generated>>

\* an image promise that an error event rejects
LoadOutcomesOrError == {"load", "error"}

\* what settles the promise that waits for the image of a visual: img.onload
\* resolves it; no onerror is set and nothing rejects it
LoadOutcomes == {"load"}

\* the image promise of visual exporter.i settles: on load ctx.drawImage,
\* then the dwell timer
imageLoaded ==
  /\ peer' = peer
  /\ preview' = preview
  /\ Settled
  /\ exporter.pc = "load"
  /\ \E outcome \in LoadOutcomes :
       IF outcome = "load"
         THEN /\ exporter' = [exporter EXCEPT !.pc = "dwell",
                                              !.drawn = Append(@, exporter.i)]
              /\ last' = NoEvent
              /\ UNCHANGED <<isExporting, exportProgress>>
         ELSE /\ exporter' = CaptureCatch(exporter)
              /\ isExporting' = FALSE
              /\ exportProgress' = 0
              /\ last' = ExportEvent("aborted", exporter.drawn,
                                     Len(exporter.proj.visuals))
  /\ UNCHANGED <<app, user, activeTab, currentStep, currentProject, ideas, loading,
                 projects, store, writes, requests, fg, loops, generated>>

\* the 1000 ms timer fires: the next visual, or recorder.stop(); the body
\* of the next iteration may throw
dwellElapsed(outcome) ==
  /\ peer' = peer
  /\ preview' = preview
  /\ Settled
  /\ exporter.pc = "dwell"
  /\ LET n == Len(exporter.proj.visuals) IN
       IF exporter.i < n
         THEN IF outcome = "ok"
                THEN /\ exportProgress' = Round100(exporter.i + 1, n)
                     /\ exporter' = [exporter EXCEPT !.pc = "load", !.i = @ + 1]
                     /\ isExporting' = isExporting
                     /\ last' = NoEvent
                ELSE /\ exportProgress' = 0
                     /\ exporter' = CaptureCatch(exporter)
                     /\ isExporting' = FALSE
                     /\ last' = ExportEvent("aborted", exporter.drawn, n)
         ELSE /\ outcome = "ok"
              /\ exportProgress' = exportProgress
              /\ exporter' = [exporter EXCEPT !.pc = "stopping", !.recording = FALSE]
              /\ isExporting' = isExporting
              /\ last' = NoEvent
  /\ UNCHANGED <<app, user, activeTab, currentStep, currentProject, ideas, loading,
                 projects, store, writes, requests, fg, loops, generated>>

\* recorder.onstop: the download, setIsExporting(false), setExportProgress(0)
recorderStopped ==
  /\ peer' = peer
  /\ preview' = preview
  /\ Settled
  /\ exporter.pc = "stopping"
  /\ isExporting' = FALSE
  /\ exportProgress' = 0
  /\ exporter' = NoExport
  /\ last' = ExportEvent("delivered", exporter.drawn, Len(exporter.proj.visuals))
  /\ UNCHANGED <<app, user, activeTab, currentStep, currentProject, ideas, loading,
                 projects, store, writes, requests, fg, loops, generated>>

\* -------------------------------------------------------------- playback
\* the play / pause button over the preview
togglePlay ==
  /\ Settled
  /\ ReviewShown(activeTab, currentStep, currentProject)
  /\ ~Overlay /\ ~isExporting
  /\ preview' = [preview EXCEPT !.playing = ~@]
  /\ last' = NoEvent
  /\ UNCHANGED <<app, user, activeTab, currentStep, currentProject, ideas, loading,
                 projects, store, writes, requests, fg, loops, isExporting,
                 exportProgress, exporter, generated, peer>>

\* the 3500 ms interval of the playback effect fires
playbackTick ==
  /\ Settled
  /\ app \in FullApps
  /\ preview.playing
  /\ currentProject # NoProject /\ Len(currentProject.visuals) > 0
  /\ preview' = [preview EXCEPT
                   !.index = (@ + 1) % Len(currentProject.visuals)]
  /\ last' = NoEvent
  /\ UNCHANGED <<app, user, activeTab, currentStep, currentProject, ideas, loading,
                 projects, store, writes, requests, fg, loops, isExporting,
                 exportProgress, exporter, generated, peer>>

\* a visual switcher dot under the preview (localStorage App)
selectDot(idx) ==
  /\ Settled
  /\ app = "fullLS"
  /\ ReviewShown(activeTab, currentStep, currentProject)
  /\ ~Overlay
  /\ idx \in 0..(Len(currentProject.visuals) - 1)
  /\ preview' = [preview EXCEPT !.index = idx, !.playing = FALSE]
  /\ last' = NoEvent
  /\ UNCHANGED <<app, user, activeTab, currentStep, currentProject, ideas, loading,
                 projects, store, writes, requests, fg, loops, isExporting,
                 exportProgress, exporter, generated, peer>>

\* -------------------------------------------------------------- second tab
\* The second tab runs the same full-pipeline App. Its memory is private, so
\* each of its handlers is taken at the moment its write reaches the store.
PeerEvent(kind, project) == [op |-> "peer", kind |-> kind, project |-> project]
PeerVars == <<app, user, activeTab, currentStep, currentProject, ideas, loading,
              projects, writes, requests, fg, loops, isExporting, exportProgress,
              exporter, generated, preview>>

\* the second tab is opened: its mount effects load the stored list
peerMount ==
  /\ app \in FullApps
  /\ ~peer.open
  /\ peer' = [open |-> TRUE, projects |-> IF store.has THEN store.list ELSE <<>>]
  /\ last' = PeerEvent("mount", NoProject)
  /\ UNCHANGED store
  /\ UNCHANGED PeerVars

\* a produce run of the second tab succeeds: setProjects([finalProject, ...])
\* and the write of its list
peerProduce(id, now) ==
  /\ app \in FullApps
  /\ peer.open
  /\ Len(peer.projects) < MaxProjects
  /\ LET finalProject == FinalProject(NewProject(id, <<>>, now), <<>>, <<"blob:wav">>)
         ps == <<finalProject>> \o peer.projects IN
       /\ peer' = [peer EXCEPT !.projects = ps]
       /\ store' = SetItem(store, ps)
       /\ last' = PeerEvent("add", finalProject)
  /\ UNCHANGED PeerVars

\* deleteProject in the second tab and the write of its list
peerDelete(k) ==
  /\ app \in FullApps
  /\ peer.open
  /\ k \in 1..Len(peer.projects)
  /\ LET ps == FilterOutId(peer.projects, peer.projects[k].id) IN
       /\ peer' = [peer EXCEPT !.projects = ps]
       /\ store' = SetItem(store, ps)
       /\ last' = PeerEvent("delete", peer.projects[k])
  /\ UNCHANGED PeerVars

\* ------------------------------------------------------- pure functions
\* createWavFile applied to one input
createWavFileCall(length, sampleRate) ==
  /\ last = NoEvent
  /\ last' = WavEvent(length, sampleRate, createWavFile(length, sampleRate))
  /\ UNCHANGED <<app, user, activeTab, currentStep, currentProject, ideas, loading,
                 projects, store, writes, requests, fg, loops, isExporting,
                 exportProgress, exporter, generated, peer, preview>>

\* the download name of one title
downloadNameCall(title) ==
  /\ last = NoEvent
  /\ last' = NameEvent(title, downloadName(title))
  /\ UNCHANGED <<app, user, activeTab, currentStep, currentProject, ideas, loading,
                 projects, store, writes, requests, fg, loops, isExporting,
                 exportProgress, exporter, generated, peer, preview>>

\* what every App offers
NextShared ==
  \/ WriteComplete
  \/ startNewProject
  \/ \E nicheInput \in NicheInputs : handleBrainstorm(nicheInput)
  \/ \E resp \in IdeaResponses : handleBrainstormReturn(resp)
  \/ \E k \in 1..1 : selectIdea(k)
  \/ \E resp \in ScriptResponses, b \in Births : selectIdeaReturn(resp, b.id, b.at)
  \/ \E k \in 0..MaxWrites : Reload(k)

\* the full-pipeline Apps: the dashboard and the history
NextDashboard ==
  \/ \E t \in {"dashboard", "history"} : SetActiveTab(t)
  \/ \E k \in 1..MaxProjects : OpenCard(k)
  \/ \E k \in 1..MaxProjects : deleteCard(k)

\* the full-pipeline Apps: produce
NextProduce ==
  \/ generateFullProduction
  \/ \E resp \in MediaResponses : generateAssetImageReturn(resp)
  \/ \E resp \in MediaResponses : generateAudioReturn(resp)

\* the full App: export
NextExport ==
  \/ \E setup \in ExportSetups : handleExport(setup)
  \/ imageLoaded
  \/ \E outcome \in CaptureOutcomes : dwellElapsed(outcome)
  \/ recorderStopped

\* the library sidebar of the library and storyboard Apps
NextLibrary ==
  \/ saveToLibrary
  \/ \E k \in 1..MaxProjects : deleteProject(k)
  \/ \E k \in 1..MaxProjects : openProject(k)

\* the storyboard App: sign-in and the background image loop
NextStoryboard ==
  \/ \E l \in 1..MaxLoops, resp \in MediaResponses : generateStoryboardImageReturn(l, resp)
  \/ backToConcepts
  \/ \E u \in Users : Login(u)
  \/ handleLogout

\* the second tab of a full-pipeline App
NextPeer ==
  \/ peerMount
  \/ \E b \in Births : peerProduce(b.id, b.at)
  \/ \E k \in 1..MaxProjects : peerDelete(k)

\* the full-pipeline Apps: the review preview
NextPlayback ==
  \/ togglePlay
  \/ playbackTick
  \/ \E idx \in 0..(MaxSegs - 1) : selectDot(idx)

NextPipeline == NextDashboard \/ NextProduce \/ NextExport
NextFull == NextShared \/ NextPipeline
\* two tabs: the first loads, browses and deletes; the second loads,
\* produces and deletes
NextTabs ==
  \/ WriteComplete
  \/ \E k \in 0..MaxWrites : Reload(k)
  \/ NextDashboard
  \/ NextPeer
NextLib == NextShared \/ NextLibrary
NextStory == NextShared \/ NextLibrary \/ NextStoryboard
Next == NextShared \/ NextPipeline \/ NextLibrary \/ NextStoryboard

Spec == Init /\ [][Next]_vars
InitFull == Init /\ app \in FullApps
InitLib == Init /\ app = "library"
InitStory == Init /\ app = "storyboard"
SpecFull == InitFull /\ [][NextFull]_vars
SpecLib == InitLib /\ [][NextLib]_vars
SpecStory == InitStory /\ [][NextStory]_vars
SpecTabs == InitFull /\ [][NextTabs]_vars

\* the full App whose stored writes complete, whose image load events and
\* timers fire and whose recorder reports its stop
InitExport == Init /\ app = "full"
SpecExport ==
  /\ InitExport /\ [][NextFull]_vars
  /\ WF_vars(WriteComplete)
  /\ SF_vars(imageLoaded)
  /\ SF_vars(\E outcome \in CaptureOutcomes : dwellElapsed(outcome))
  /\ SF_vars(recorderStopped)

\* the full-pipeline Apps without export, on answers that repeat an id too
NextDup ==
  \/ NextShared \/ NextDashboard \/ NextProduce
  \/ \E resp \in DupResponses, b \in Births : selectIdeaReturn(resp, b.id, b.at)
SpecDup == InitFull /\ [][NextDup]_vars

\* every App without export, on one-segment scripts, with the id and the
\* clock sampled apart
NextStamps ==
  \/ WriteComplete
  \/ startNewProject
  \/ \E nicheInput \in NicheInputs : handleBrainstorm(nicheInput)
  \/ \E resp \in IdeaResponses : handleBrainstormReturn(resp)
  \/ \E k \in 1..1 : selectIdea(k)
  \/ \E resp \in ShortResponses, id \in Ids, now \in Stamps : selectIdeaReturn(resp, id, now)
  \/ \E k \in 0..MaxWrites : Reload(k)
  \/ NextDashboard \/ NextProduce \/ NextLibrary \/ NextStoryboard
SpecStamps == Init /\ [][NextStamps]_vars

\* the full-pipeline Apps without export, with playback
NextPreview == NextShared \/ NextDashboard \/ NextProduce \/ NextPlayback
SpecPreview == InitFull /\ [][NextPreview]_vars

\* the storyboard App used by two accounts in turn, on one-segment scripts;
\* the id generator returns a different value in each account's sessions,
\* and script answers arrive while the account is still signed in
IdOf(u) == IF u = "u1" THEN 1 ELSE MaxIds
sessionScriptReturn(resp) ==
  /\ user # NoUser
  /\ selectIdeaReturn(resp, IdOf(user), 1)
NextUsers ==
  \/ WriteComplete
  \/ startNewProject
  \/ \E nicheInput \in NicheInputs : handleBrainstorm(nicheInput)
  \/ \E resp \in IdeaResponses : handleBrainstormReturn(resp)
  \/ \E k \in 1..1 : selectIdea(k)
  \/ \E resp \in ShortResponses : sessionScriptReturn(resp)
  \/ \E k \in 0..MaxWrites : Reload(k)
  \/ NextLibrary
  \/ \E l \in 1..MaxLoops, resp \in MediaResponses : generateStoryboardImageReturn(l, resp)
  \/ backToConcepts
  \/ \E u \in Accounts : Login(u)
  \/ handleLogout
SpecUsers == InitStory /\ [][NextUsers]_vars

NextWav == \E length \in PcmLengths, sampleRate \in SampleRates :
             createWavFileCall(length, sampleRate)
SpecWav == InitFull /\ [][NextWav]_vars

NextName == \E title \in Titles : downloadNameCall(title)
SpecName == InitFull /\ [][NextName]_vars

\* ================================================================ claims
ImageFailed == last.op = "prod" /\ last.call = "image" /\ ~last.ok

\* C1: when the image call of segment i fails and i is not the last
\* segment, the image of segment i+1 is requested next; the failure does
\* not end the loop.
C1_FailureContinues ==
  (ImageFailed /\ last.seg < last.n)
    => Request(last.owner, "image", last.seg + 1) \in requests

\* C2: a produce run in which the image call failed for exactly one segment
\* k and speech did not fail ends with the project ready, shown in REVIEW,
\* in the project list, with a Visual for every segment but k.
C2_PartialFailureReady ==
  (last.op = "prod" /\ last.owner = Fg /\ last.ended
     /\ Cardinality(last.failed) = 1 /\ last.speech # "fail")
    => /\ currentProject.status = "ready"
       /\ currentStep = "REVIEW"
       /\ currentProject \in SeqRange(projects)
       /\ {v.segmentId : v \in SeqRange(currentProject.visuals)}
            = {currentProject.script[j].id :
                 j \in (1..Len(currentProject.script)) \ last.failed}

\* C3: a project whose status is 'ready' has a Visual with an image for
\* every Segment of its script, in script order, and an audio handle.
ReadyComplete(p) ==
  p.status = "ready"
    => /\ Len(p.visuals) = Len(p.script)
       /\ \A j \in 1..Len(p.script) :
            p.visuals[j].segmentId = p.script[j].id /\ p.visuals[j].url # NoImage
       /\ p.audioData # NoAudio
C3_ReadyHasVisualsAndAudio == \A p \in AllProjects : ReadyComplete(p)
C3_Witness ==
  \E p \in SeqRange(projects) : p.status = "ready" /\ Len(p.script) = MaxSegs

\* C4: produce never requests an image for a segment of the current
\* project whose image an earlier call already delivered: a retry after a
\* run that failed part-way asks only for the segments still missing.
C4_RetrySkipsGenerated ==
  \A r \in requests : (r.owner = Fg /\ r.kind = "image") => r.seg \notin generated

\* C5: when speech synthesis fails, the project stays the draft it was, the
\* project list, the store and the pending writes are untouched, the
\* loading label is cleared and the step is SCRIPTING with Generate Visuals
\* available again.
SpeechFails == fg.pc = "audio" /\ last'.op = "prod" /\ last'.call = "audio" /\ ~last'.ok
C6_EmptyScriptNeverReady ==
  \A p \in AllProjects :
    Len(p.script) = 0 => (p.status # "ready" /\ p \notin SeqRange(projects))

RequestsOf(owner) == {r \in requests : r.owner = owner}
Upto(k) == [j \in 1..k |-> j]
C8_ScriptOrder ==
  /\ fg.pc \in {"image", "audio"} =>
       /\ Len(fg.visuals) = (IF fg.pc = "image" THEN fg.i - 1 ELSE Len(fg.proj.script))
       /\ \A j \in 1..Len(fg.visuals) :
            fg.visuals[j].segmentId = fg.proj.script[j].id
  /\ fg.pc = "image" => RequestsOf(Fg) = {Request(Fg, "image", fg.i)}
  /\ \A p \in AllProjects :
       p.status = "ready" =>
         \A j \in 1..Len(p.visuals) : p.visuals[j].segmentId = p.script[j].id
  /\ exporter.pc = "load" => exporter.drawn = Upto(exporter.i - 1)
  /\ exporter.pc = "dwell" => exporter.drawn = Upto(exporter.i)
  /\ exporter.pc = "stopping" => exporter.drawn = Upto(Len(exporter.proj.visuals))
  /\ (last.op = "export" /\ last.outcome = "delivered") => last.drawn = Upto(last.n)
C8_Witness ==
  last.op = "export" /\ last.outcome = "delivered" /\ last.n = MaxSegs

\* C9: brainstormIdeas never throws and returns a list of well-formed
\* Ideas; on a response that is not an array of Ideas it returns [].
WellFormedIdeas(v) ==
  /\ v.t = "array"
  /\ \A j \in 1..Len(v.items) :
       DOMAIN v.items[j] = {"title", "hook", "description", "suggestedNiche"}
ExpectedShape(resp) ==
  ~resp.fails /\ ~resp.text.empty /\ resp.text.valid /\ WellFormedIdeas(resp.text.json)
C9_BrainstormFailSoft ==
  last.op = "brainstorm" =>
    /\ ~last.res.threw
    /\ WellFormedIdeas(last.res.value)
    /\ ~ExpectedShape(last.resp) => last.res.value = NoIdeas

\* C10: after an add, a replace or a delete, once no write is pending, the
\* store holds the in-memory project list.
ListChanged ==
  last.op = "list" \/ (last.op = "prod" /\ last.call = "audio" /\ last.ok)
C10_StoreFollowsList ==
  (ListChanged /\ writes = <<>>) => store = Stored(projects)

\* C11: a session that closes with its list saved (no write pending) and is
\* opened again loads the list it had: same projects, same order; a project
\* deleted before the reload does not come back.
C11_RoundTrip ==
  [][(last'.op = "reload" /\ last'.saved /\ (app = "storyboard" => user # NoUser))
       => projects' = projects]_vars

\* C12: no two projects of the in-memory list, of the stored list or of a
\* list being written have the same id, whatever ids the generator returns.
DistinctIds(ps) == \A j, k \in 1..Len(ps) : ps[j].id = ps[k].id => j = k
C12_NoDuplicateIds ==
  /\ DistinctIds(projects)
  /\ DistinctIds(store.list)
  /\ \A j \in 1..Len(writes) : DistinctIds(writes[j])

\* C13: with two tabs on one store, every change of the store is one tab's
\* whole in-memory list replacing what was stored (no merge); a project the
\* other tab added since the writer loaded is lost.
C13_LastWriterWins ==
  [][store' # store =>
       \/ store' = Stored(peer'.projects)
       \/ writes # <<>> /\ \E k \in 1..Len(writes) : store' = Stored(writes[k])
       \/ app = "fullLS" /\ store' = Stored(projects')]_vars
C13_Witness ==
  /\ last.op = "peer" /\ last.kind = "add"
  /\ last.project \in SeqRange(peer.projects)
  /\ store.has /\ last.project \notin SeqRange(store.list)

\* C14: after an exception in the capture loop, with the recorder started,
\* the recorder is stopped, none is left running, isExporting is false and
\* exportProgress is 0.
C14_AbortStopsRecorder ==
  (last.op = "export" /\ last.outcome = "aborted")
    => ~exporter.recording /\ ~isExporting /\ exportProgress = 0

\* the 32-bit little-endian field at byte offset off, as a number
Field32(header, off) == Append(SubSeq(header, off + 1, off + 4), 0)
Field16(header, off) == SubSeq(header, off + 1, off + 2)
Below32(n) == n[5] = 0

\* C15 as stated: for every L and R the data length field is L, the file
\* length field is 36 + L and the byte rate field is 2R.
C15_HeaderFieldsExact ==
  last.op = "wav" =>
    /\ Field32(last.header, 40) = last.length
    /\ Field32(last.header, 4) = Plus(Small(36), last.length)
    /\ Field32(last.header, 28) = Plus(last.sampleRate, last.sampleRate)

\* C15 amended: the header has 44 bytes with channel count 1, bits per
\* sample 16 and block align 2; each 32-bit field holds its value modulo
\* 2^32, so data length = L, file length = 36 + L and byte rate = 2R exactly
\* when 36 + L and 2R are below 2^32.
C15_HeaderFieldsMod32 ==
  last.op = "wav" =>
    LET h == last.header
        fileLength == Plus(Small(36), last.length)
        byteRate == Plus(last.sampleRate, last.sampleRate) IN
      /\ Len(h) = 44
      /\ Field16(h, 22) = <<1, 0>> /\ Field16(h, 34) = <<16, 0>>
      /\ Field16(h, 32) = <<2, 0>> /\ Field16(h, 20) = <<1, 0>>
      /\ SubSeq(h, 41, 44) = SubSeq(last.length, 1, 4)
      /\ SubSeq(h, 5, 8) = SubSeq(fileLength, 1, 4)
      /\ SubSeq(h, 29, 32) = SubSeq(byteRate, 1, 4)
      /\ Below32(fileLength) =>
           Field32(h, 4) = fileLength /\ Field32(h, 40) = last.length
      /\ Below32(byteRate) =>
           Field32(h, 28) = byteRate /\ Field32(h, 24) = last.sampleRate
C15_Witness ==
  /\ last.op = "wav" /\ last.length = Small(220) /\ last.sampleRate = Small(24000)
  /\ Field32(last.header, 4) = Small(256)
  /\ Field32(last.header, 28) = Small(48000)

\* C16: every produce run that ends has issued its one speech request; a
\* speech request is in flight only after the images of all segments are
\* there, and its text is the segment texts in script order with single
\* spaces between them.
SpokenText(script) ==
  [j \in 1..(IF Len(script) = 0 THEN 0 ELSE 2 * Len(script) - 1) |->
     IF j % 2 = 1 THEN script[(j + 1) \div 2].text ELSE " "]
SpeechInOrder ==
  \A r \in requests :
    r.kind = "audio" =>
      /\ requests = {r}
      /\ fg.pc = "audio" /\ Len(fg.visuals) = Len(fg.proj.script)
      /\ r.text = SpokenText(fg.proj.script)
C16_OneSpeechPerRun ==
  /\ (last.op = "prod" /\ last.owner = Fg /\ last.ended) => last.speech # "notcalled"
  /\ SpeechInOrder

\* C17: when generateScript returns, the current project is a new draft
\* with no visuals and no audio whose script is the array of the Gateway's
\* answer in its order, the step is SCRIPTING, and the list and the store
\* are untouched; when the Gateway call fails, currentProject, currentStep
\* and ideas are unchanged.
ScriptReturns == fg.pc = "script" /\ last'.op = "script"
C18_VisualsMatchSegments ==
  \A p \in AllProjects :
    /\ Len(p.visuals) <= Len(p.script)
    /\ \A j \in 1..Len(p.visuals) :
         Cardinality({k \in 1..Len(p.script) : p.script[k].id = p.visuals[j].segmentId}) = 1

\* C19: no step changes the createdAt of a project: a project value of the
\* next state carries the createdAt that a project with its id carries now,
\* unless it is the project that generateScript's return has just created,
\* stamped with the current time.
C19_CreatedAtKept ==
  [][\A q \in AllProjects' :
       \/ \E p \in AllProjects : p.id = q.id /\ p.createdAt = q.createdAt
       \/ fg.pc = "script" /\ last'.op = "script" /\ q = currentProject']_vars
C19_Witness ==
  \E p \in SeqRange(store.list) :
    /\ p.createdAt = MaxStamps /\ p.id = 1
    /\ (app \in FullApps => p.status = "ready")
    /\ (app = "storyboard" => \E j \in 1..Len(p.script) : p.script[j].visualImage # NoImage)
    /\ last.op = "reload" /\ p \in SeqRange(projects)

\* the characters a file name must not hold: path separators, colon,
\* quotes, wildcards, angle brackets, bar, control characters, whitespace
UnsafeChars == {"/", "\\", ":", "\"", "'", "*", "?", "<", ">", "|", "\t",
                "\n", "\r", " "}

\* the download name ends in "_inflow.webm" and holds no whitespace
NameShape ==
  last.op = "name"
    => /\ Len(last.name) >= Len(Suffix)
       /\ SubSeq(last.name, Len(last.name) - Len(Suffix) + 1, Len(last.name)) = Suffix
       /\ \A i \in 1..Len(last.name) : ~IsSpace(last.name[i])

\* C20: the download name of every title is the title with every unsafe
\* character replaced, followed by "_inflow.webm": it holds no character
\* that is unsafe in a file name.
C20_NameIsSafe ==
  last.op = "name"
    => /\ NameShape
       /\ \A i \in 1..Len(last.name) : last.name[i] \notin UnsafeChars

\* C21: at every point of an export of N > 0 visuals, exportProgress is
\* round(100 * k / N) with k the number of visuals already drawn onto the
\* canvas, so that it reads 100 only once the last frame has been drawn.
C21_ProgressAfterFrame ==
  (isExporting /\ exporter.pc \in {"load", "dwell", "stopping"}
     /\ Len(exporter.proj.visuals) > 0)
    => exportProgress = Round100(Len(exporter.drawn), Len(exporter.proj.visuals))

\* a step taken while the image of a visual is awaited: the image loads
\* and is drawn, or the page is closed, or the export stays where it is
LoadBlocks ==
  (exporter.pc = "load" /\ last'.op # "reload")
    => \/ /\ exporter' = [exporter EXCEPT !.pc = "dwell",
                                           !.drawn = Append(@, exporter.i)]
          /\ UNCHANGED <<isExporting, exportProgress>>
       \/ /\ UNCHANGED <<exporter, isExporting, exportProgress>>
          /\ isExporting /\ exporter.recording

\* C22: an export whose image load events all fire ends with isExporting
\* false; while the image of a visual has not loaded the frame blocks: the
\* recorder keeps recording, isExporting stays true and no handleExport
\* call has an effect.
C22_ExportTerminates ==
  /\ isExporting ~> ~isExporting
  /\ [][LoadBlocks]_vars
C22_Witness ==
  /\ isExporting /\ exporter.pc = "load" /\ exporter.i = MaxSegs
  /\ exporter.recording /\ activeTab = "dashboard"

\* an export step that ends an attempt
Delivers == last'.op = "export" /\ last' # last /\ last'.outcome = "delivered"
Fails == last'.op = "export" /\ last' # last /\ last'.outcome # "delivered"
AllDrawn(ex) == ex.drawn = [j \in 1..Len(ex.proj.visuals) |-> j]

\* C23: the file is delivered only by the stop of a recorder that was
\* stopped after the dwell of the last visual, once per export, and then
\* isExporting becomes false and exportProgress 0; an attempt that fails
\* leaves no recorder that could deliver a file.
C23_DeliveredOnce ==
  /\ [][Delivers => /\ exporter.pc = "stopping" /\ ~exporter.recording
                    /\ AllDrawn(exporter) /\ isExporting
                    /\ ~isExporting' /\ exportProgress' = 0
                    /\ exporter' = NoExport]_vars
  /\ [][Fails => exporter'.pc = "idle" /\ ~isExporting']_vars
  /\ [](exporter.pc = "stopping" => AllDrawn(exporter) /\ ~exporter.recording)
  /\ [](exporter.pc = "idle" => exporter.drawn = <<>> /\ ~isExporting)
C23_Witness ==
  /\ last.op = "export" /\ last.outcome = "delivered" /\ last.n = MaxSegs
  /\ ~isExporting /\ exporter = NoExport

\* the index is valid once the reset effect has run
IndexSettled ==
  ReviewShown(activeTab, currentStep, currentProject)
    => preview.index \in 0..(Len(currentProject.visuals) - 1)

\* C24: whenever the review preview of a project with visuals is rendered,
\* currentVisualIndex is an index of its visuals: in the state the handlers
\* and timers leave, and in the render that directly followed the last
\* change of currentProject.
C24_IndexValid ==
  /\ IndexSettled
  /\ ReviewShown(activeTab, currentStep, currentProject)
       => preview.seen \in 0..(Len(currentProject.visuals) - 1)

\* loop l of the storyboard App took the step that ends its awaited image
\* call
LoopReturns(l) ==
  /\ app = "storyboard" /\ loops[l].on
  /\ last'.op = "prod" /\ last'.owner = l /\ loops'[l] # loops[l]

\* q is p with img written into script[i].visualImage and nothing else
\* written: the other fields, the other segments and the other fields of
\* segment i are those of p
OnlyVisualImage(p, q, i, img) ==
  /\ [q EXCEPT !.script = <<>>] = [p EXCEPT !.script = <<>>]
  /\ Len(q.script) = (IF i > Len(p.script) THEN i ELSE Len(p.script))
  /\ \A j \in 1..Len(q.script) :
       IF j = i
         THEN /\ q.script[j].visualImage = img
              /\ j <= Len(p.script)
                   => [q.script[j] EXCEPT !.visualImage = NoImage]
                        = [p.script[j] EXCEPT !.visualImage = NoImage]
         ELSE q.script[j] = (IF j <= Len(p.script) THEN p.script[j] ELSE Hole)

\* C25: an image that the background loop obtains for segment i of project
\* P is written into the current project only if its id is P's id, and then
\* only into script[i].visualImage; otherwise currentProject is unchanged;
\* either way the loop goes on to request the image of P's next segment.
C25_ImageOnlyIntoItsProject ==
  [][\A l \in 1..MaxLoops :
       LoopReturns(l) =>
         LET P == loops[l].project
             i == loops[l].i IN
           /\ IF currentProject = NoProject \/ currentProject.id # P.id \/ ~last'.ok
                THEN currentProject' = currentProject
                ELSE OnlyVisualImage(currentProject, currentProject', i,
                                     ImageUrl(P.script[i].visualPrompt))
           /\ i < Len(P.script)
                => loops'[l].on /\ Request(l, "image", i + 1) \in requests']_vars
C25_Witness ==
  \E l \in 1..MaxLoops :
    /\ app = "storyboard" /\ loops[l].on /\ loops[l].i = MaxSegs
    /\ last.op = "prod" /\ last.owner = l /\ last.ok
    /\ Request(l, "image", MaxSegs) \in requests
    /\ currentProject # NoProject /\ currentProject.id # loops[l].project.id
    /\ \A j \in 1..Len(currentProject.script) :
         currentProject.script[j].visualImage = NoImage

\* the step before was a navigation: startNewProject, openProject or
\* deleteProject
Navigated == last.op = "nav" \/ (last.op = "list" /\ last.kind = "delete")

\* the awaited brainstorm or script request of the handler completes
RequestReturns == fg.pc \in {"brainstorm", "script"} /\ fg'.pc = "idle"
                    /\ last'.op \in {"brainstorm", "script"}

\* C26: in the script-library Apps the completion of a brainstorm or script
\* request that was issued before a navigation (startNewProject,
\* openProject, deleteProject) leaves ideas, currentProject and currentStep
\* as the navigation set them.
C26_NavigationNotOverridden ==
  [][(app \in LibApps /\ Navigated /\ RequestReturns)
       => UNCHANGED <<ideas, currentProject, currentStep>>]_vars

\* the step is openProject: no other step taken with no write pending
\* leaves the "open" event
Opens == writes = <<>> /\ last' = NavEvent("open")

\* C27: in the storyboard App an image that the background loop completes
\* changes currentProject only: the library and the stored list, with every
\* entry a saveToLibrary put there, stay as they are; openProject makes a
\* library entry the current project and starts no image request.
C27_SavedCopyKept ==
  /\ [][\A l \in 1..MaxLoops :
          LoopReturns(l) => UNCHANGED <<projects, store, writes>>]_vars
  /\ [][(app = "storyboard" /\ Opens)
          => /\ currentProject' \in SeqRange(projects)
             /\ UNCHANGED <<projects, store, writes, loops, requests>>]_vars
C27_Witness ==
  /\ app = "storyboard"
  /\ last.op = "prod" /\ last.owner # Fg /\ last.ok
  /\ store = Stored(projects)
  /\ \E k \in 1..Len(projects) :
       /\ projects[k].id = currentProject.id
       /\ projects[k].script[last.seg].visualImage = NoImage
       /\ currentProject.script[last.seg].visualImage # NoImage

\* C28: in the authenticated App, in every state without a logged-in user
\* there is no current project and the step is IDEATION, and no step that
\* ends without a logged-in user starts a Gateway request.
C28_LoggedOutIsIdle ==
  /\ []((app = "storyboard" /\ user = NoUser)
          => currentProject = NoProject /\ currentStep = "IDEATION")
  /\ [][(app = "storyboard" /\ user' = NoUser) => requests' \subseteq requests]_vars

\* C29: the library shown to a logged-in user holds only projects saved in
\* sessions of that user; with ids that tell the sessions apart: every
\* project of the list carries an id drawn in a session of the user who is
\* logged in.
C29_OwnLibraryOnly ==
  (app = "storyboard" /\ user # NoUser)
    => \A p \in SeqRange(projects) : p.id = IdOf(user)

\* a listed project: ready, with audio and one Visual per Segment in order
ListedComplete(p) ==
  /\ p.status = "ready" /\ p.audioData # NoAudio
  /\ Len(p.visuals) = Len(p.script)
  /\ \A i \in 1..Len(p.visuals) :
       p.visuals[i].segmentId = p.script[i].id /\ p.visuals[i].url # NoImage
ListedProjects ==
  SeqRange(projects) \cup SeqRange(store.list)
    \cup UNION {SeqRange(w) : w \in SeqRange(writes)}
\* ps without the projects whose id is id, the others in their order
WithoutId(ps, id) == SelectSeq(ps, LAMBDA q : q.id # id)

====
